---- MODULE Spec2Model ----
(***************************************************************************)
(* The asynchronous translation job of madoka_subs: the submit route       *)
(* (src/app/api/translate/submit/route.ts) stores a job record in the blob *)
(* store, and every poll (src/app/api/translate/[jobId]/route.ts) loads    *)
(* the record, translates one batch of cues, and writes the record back.   *)
(*                                                                         *)
(* FaultSpec adds the failures of the host, the store and the environment, *)
(* BatchSpec follows one poll invocation request by request, CodecSpec     *)
(* runs parseSrt and rebuildSrt on their own, and OneShotSpec is the       *)
(* one-shot route (src/app/api/translate/route.ts) with its workers.       *)
(*                                                                         *)
(* Text is modelled line by line: a string is the sequence of its lines    *)
(* (what split("\n") returns), so the empty string is the one-line text    *)
(* <<EmptyLine>>.  A line is a record that says what the code's tests      *)
(* (trim().length, Number(), the timestamp regex) find in it.              *)
(***************************************************************************)
EXTENDS Integers, Sequences, FiniteSets, TLC

\* ------------------------------------------------------------ bounds

\* Number of jobs that can be submitted and accepted.
MaxJobs == 1

\* Number of poll invocations that can be in flight at the same time.
NumPollers == 2

\* Number of cues of the largest submitted subtitle track.
MaxCues == 31

\* The poll counters stop counting at this value.
PollCap == 3

\* Cue positions (0-based, as the cursor) whose translation request may
\* come back empty or fail; every other request succeeds.
FaultPositions == {0, MaxCues - 1}

\* Number of lines of the longest text given to the codec.
MaxLines == 6

\* Number of faults of the host, the store or the environment in one run.
MaxFaults == 1

\* Number of cues of the largest batch whose requests settle one at a time.
MaxBatch == 3

\* The largest track given to the one-shot route has MaxExtra cues more than
\* the route has workers.
MaxExtra == 2

\* A request of the one-shot route settles only if its position is below
\* the number of requests settled so far plus Window.
Window == 2

\* ------------------------------------------------------------ constants

\* const concurrency = 30
concurrency == 30

\* const concurrency = 100 of the one-shot route
oneShotConcurrency == 100

\* Positions of the one-shot route whose request may come back empty or
\* fail; every other request succeeds.
ShotFaultPositions == {0, oneShotConcurrency}

JobIds == 1 .. MaxJobs
Pollers == 1 .. NumPollers

\* A value that is undefined (a sequence-valued field that is absent).
Undefined == <<>>

\* A string-valued field that is absent.
Absent == "undefined"

Min(a, b) == IF a < b THEN a ELSE b

\* ------------------------------------------------------------ lines

\* k = "num":   trim() is a numeral, Number() gives n
\* k = "time":  the line matches /^(ts)\s*-->\s*(ts)/ with groups s and e
\* k = "txt":   any other line with a non-blank character, w
\* k = "blank": only white space, n characters of it
\* cr: the number of "\r" characters the line ends with
Line(k, n, s, e, w) == [k |-> k, n |-> n, s |-> s, e |-> e, w |-> w, cr |-> 0]
NumLine(n) == Line("num", n, 0, 0, "")
TimeLine(s, e) == Line("time", 0, s, e, "")
TxtLine(w) == Line("txt", 0, 0, 0, w)
EmptyLine == Line("blank", 0, 0, 0, "")
SpaceLine == Line("blank", 1, 0, 0, "")
EndsCR(l, c) == [l EXCEPT !.cr = c]

\* l.trim().length > 0
NonBlank(l) == l.k # "blank"

\* As IsFiniteNumber, without the test.
IsFiniteNumberUnchecked(l) == TRUE

\* Number.isFinite(Number(l.trim())) for a non-blank line
IsFiniteNumber(l) == l.k = "num"

\* timeLine.match(/^(\d{2}:\d{2}:\d{2},\d{3})\s*-->\s*(\d{2}:\d{2}:\d{2},\d{3})/)
TimeMatch(l) == l.k = "time"

\* lines.join("\n"): the join of no lines is the empty string
JoinLines(ls) == IF ls = <<>> THEN <<EmptyLine>> ELSE ls

\* ------------------------------------------------------------ parseSrt

\* input.split(/\n\s*\n/) on the lines lo..hi of the input: a blank line
\* ends a block, so two halves meet in the block that spans their border.
RECURSIVE SplitBlocks(_, _, _)
SplitBlocks(input, lo, hi) ==
  IF lo > hi THEN << <<>> >>
  ELSE IF lo = hi
    THEN IF NonBlank(input[lo]) THEN << <<input[lo]>> >> ELSE << <<>>, <<>> >>
  ELSE LET mid == (lo + hi) \div 2
           l == SplitBlocks(input, lo, mid)
           r == SplitBlocks(input, mid + 1, hi)
       IN SubSeq(l, 1, Len(l) - 1) \o << l[Len(l)] \o r[1] >> \o Tail(r)

\* The body of the loop over the blocks: the entries one block adds.
BlockEntries(block) ==
  LET lines == SelectSeq(block, NonBlank) IN
  IF Len(lines) < 2 THEN <<>>
  ELSE IF ~IsFiniteNumber(lines[1]) \/ ~TimeMatch(lines[2]) THEN <<>>
  ELSE << [index |-> lines[1].n,
           start |-> lines[2].s,
           end   |-> lines[2].e,
           text  |-> JoinLines(SubSeq(lines, 3, Len(lines)))] >>

\* for (const block of blocks): the entries of the blocks lo..hi, in order
RECURSIVE ParseBlocks(_, _, _)
ParseBlocks(blocks, lo, hi) ==
  IF lo > hi THEN <<>>
  ELSE IF lo = hi THEN BlockEntries(blocks[lo])
  ELSE LET mid == (lo + hi) \div 2
       IN ParseBlocks(blocks, lo, mid) \o ParseBlocks(blocks, mid + 1, hi)

\* input.replace(/\r\n/g, "\n"): every line but the last is followed by
\* "\n", so it loses one "\r" if it ends with one.
ReplaceCRLF(input) ==
  [i \in DOMAIN input |->
     IF i < Len(input) /\ input[i].cr > 0
       THEN [input[i] EXCEPT !.cr = @ - 1] ELSE input[i]]

parseSrt(input) ==
  LET text == ReplaceCRLF(input)
      blocks == SplitBlocks(text, 1, Len(text))
  IN ParseBlocks(blocks, 1, Len(blocks))

\* ------------------------------------------------------------ rebuildSrt

\* As EntryBlock, but the source text is printed whether or not there is a
\* translation.
EntryBlockSourceOnly(e) == <<NumLine(e.index), TimeLine(e.start, e.end)>> \o e.src

\* `${e.index}\n${e.start} --> ${e.end}\n${e.dst ?? e.src}`
EntryBlock(e) ==
  <<NumLine(e.index), TimeLine(e.start, e.end)>>
    \o (IF e.dst # Undefined THEN e.dst ELSE e.src)

\* entries.map(...).join("\n\n"), from entry i on
RECURSIVE JoinBlocks(_, _)
JoinBlocks(entries, i) ==
  IF i > Len(entries) THEN <<>>
  ELSE IF i = Len(entries) THEN EntryBlock(entries[i])
  ELSE EntryBlock(entries[i]) \o <<EmptyLine>> \o JoinBlocks(entries, i + 1)

rebuildSrt(entries) == JoinLines(JoinBlocks(entries, 1))

\* ------------------------------------------------------------ translateOne

\* What the stubbed vendor answers for a text: every word gets "-ZH".
ZH(text) ==
  [i \in DOMAIN text |->
     IF text[i].k = "txt" THEN TxtLine(text[i].w \o "-ZH") ELSE text[i]]

\* The ways one request can end: "ok" answers the translation, "empty"
\* answers 200 with no content, "fail" answers a status that is not ok.
OutcomeKinds == {"ok", "empty", "fail"}

\* translateOne: ok = FALSE when it throws, t = the trimmed content.
translateOne(text, kind) ==
  IF kind = "fail" THEN [ok |-> FALSE, t |-> <<EmptyLine>>]
  ELSE IF kind = "empty" THEN [ok |-> TRUE, t |-> <<EmptyLine>>]
  ELSE [ok |-> TRUE, t |-> ZH(text)]

\* A JavaScript string is truthy unless it is the empty string.
Truthy(t) == t # <<EmptyLine>>

\* As SettledEntry, but a failed request leaves the empty string.
SettledEntryBlank(entry, r) ==
  IF r.ok THEN [entry EXCEPT !.dst = IF Truthy(r.t) THEN r.t ELSE entry.src]
  ELSE [entry EXCEPT !.dst = <<EmptyLine>>]

\* As SettledEntry, but a failed request leaves dst unset.
SettledEntryUnsetOnFail(entry, r) ==
  IF r.ok THEN [entry EXCEPT !.dst = IF Truthy(r.t) THEN r.t ELSE entry.src]
  ELSE entry

\* As SettledEntry, but the translation overwrites the source text.
SettledEntryInPlace(entry, r) ==
  IF r.ok /\ Truthy(r.t) THEN [entry EXCEPT !.src = r.t, !.dst = r.t]
  ELSE [entry EXCEPT !.dst = entry.src]

\* .then((t) => { entry.dst = t || entry.src; ... })
\* .catch(() => { entry.dst = entry.src; })
SettledEntry(entry, r) ==
  IF r.ok THEN [entry EXCEPT !.dst = IF Truthy(r.t) THEN r.t ELSE entry.src]
  ELSE [entry EXCEPT !.dst = entry.src]

\* The outcomes of the requests of one batch.
Outcomes(S) ==
  { [i \in S |-> IF i \in DOMAIN f THEN f[i] ELSE "ok"] :
      f \in [S \cap FaultPositions -> OutcomeKinds] }

\* ------------------------------------------------------------ inputs

CueIndex(i) == 100 - i
CueText(i) ==
  IF i % 2 = 1 THEN <<TxtLine("Hello")>>
  ELSE <<TxtLine("World"), TxtLine("Again")>>

\* The text of the well-formed blocks lo..hi, each followed by a blank line.
RECURSIVE DocRange(_, _)
DocRange(lo, hi) ==
  IF lo > hi THEN <<>>
  ELSE IF lo = hi
    THEN <<NumLine(CueIndex(lo)), TimeLine(2 * lo - 2, 2 * lo)>>
           \o CueText(lo) \o <<EmptyLine>>
  ELSE LET mid == (lo + hi) \div 2
       IN DocRange(lo, mid) \o DocRange(mid + 1, hi)

Doc(n) == DocRange(1, n)

\* A block that has no timestamp line.
Junk == <<NumLine(7), TxtLine("no time line"), EmptyLine>>

Body(srt, targetLanguage, note) ==
  [srt |-> srt, targetLanguage |-> targetLanguage, note |-> note]

SubmitBodies ==
  { Body(Undefined, Absent, Absent),
    Body(<<EmptyLine>>, "en", Absent),
    Body(<<SpaceLine, EmptyLine>>, Absent, Absent),
    Body(Junk, Absent, Absent),
    Body(Junk \o Doc(1), Absent, Absent),
    Body(Doc(1), "en", "anime"),
    Body(Doc(2), Absent, Absent),
    Body(Doc(concurrency), Absent, Absent),
    Body(Doc(MaxCues), Absent, Absent) }

\* parseSrt(body.srt) of every body, computed once.
Parsed == [body \in SubmitBodies |-> parseSrt(body.srt)]

\* Date.now() at the submission.
Clock == {1700000000}

\* ------------------------------------------------------------ state

VARIABLES
  apiKey,      \* env.LLM_API_KEY is set
  store,       \* AUDIO_BUCKET: the object under translate-jobs/<jobId>.json
  created,     \* number of job ids handed out by randomUUID
  submitResp,  \* the response of the last submit
  pc,          \* where each poll invocation stands
  key,         \* the jobId of each poll invocation
  job,         \* the record each invocation holds in memory
  tasks,       \* the positions each invocation claimed, in the order claimed
  progressed,  \* let progressed of each invocation
  resp,        \* the response of each poller's last poll
  \* history
  origin,      \* the entries each job was submitted with
  c0,          \* the cursor each invocation loaded
  faults,      \* <<position, outcome>> of the requests that gave the
               \* in-memory record no translation ("empty" or "fail")
  fallen,      \* the same for the stored record
  polls,       \* number of polls begun for each job, up to PollCap
  pollNo,      \* the number of each poller's last poll of its job
  overlap,     \* two polls of the job have been in flight together
  doneSrt,     \* the srt of the first completed response of each job
  afterDone,   \* the poll began after a completed response of its job
  wrote,       \* the invocation has put the record back
  sent,        \* the requests the invocation has sent, in the order sent
  asked,       \* how many requests each cue of each job has had, up to PollCap
  nfaults,     \* number of faults so far
  \* the codec on its own
  stage,        \* how far the codec has come with the text
  codecIn,      \* the text given to parseSrt
  codecCues,    \* parseSrt(codecIn)
  codecEntries, \* the job entries made of the cues, some translated
  codecOut,     \* rebuildSrt(codecEntries)
  codecBack,    \* parseSrt(codecOut)
  \* one poll invocation, request by request
  batchStage,      \* how far the invocation has come
  batchStore,      \* AUDIO_BUCKET: the object of the job
  batchLoaded,     \* the record the invocation loaded
  batchJob,        \* the record the invocation holds in memory
  batchTasks,      \* the positions claimed, in the order claimed
  pending,         \* the positions whose request has not settled
  settledKinds,    \* how the request of each settled position ended
  settleOrder,     \* the positions in the order their requests settled
  batchProgressed, \* let progressed
  puts,            \* number of put calls of the invocation
  batchResp,       \* the response of the invocation
  \* the one-shot route
  shotStage,         \* how far the request has come
  shotEntries,       \* const entries = parseSrt(body.srt)
  translatedEntries, \* new Array(entries.length)
  shotCursor,        \* let cursor
  myIndex,           \* const myIndex of each worker, Broke after its break
  claimed,           \* how many times each position has been taken
  shotKinds,         \* how the request of each settled position ended
  shotResp           \* the response of the request

vars == <<apiKey, store, created, submitResp, pc, key, job, tasks, progressed, resp,
          origin, c0, faults, fallen, polls, pollNo, overlap, doneSrt,
          afterDone, wrote, sent, asked, nfaults, stage, codecIn, codecCues, codecEntries, codecOut,
          codecBack, batchStage, batchStore, batchLoaded, batchJob, batchTasks,
          pending, settledKinds, settleOrder, batchProgressed, puts, batchResp,
          shotStage, shotEntries, translatedEntries, shotCursor, myIndex, claimed,
          shotKinds, shotResp>>

codecVars == <<stage, codecIn, codecCues, codecEntries, codecOut, codecBack>>

batchVars == <<batchStage, batchStore, batchLoaded, batchJob, batchTasks, pending,
               settledKinds, settleOrder, batchProgressed, puts, batchResp>>

shotVars == <<shotStage, shotEntries, translatedEntries, shotCursor, myIndex, claimed,
              shotKinds, shotResp>>

serviceVars == <<apiKey, store, created, submitResp, pc, key, job, tasks,
                 progressed, resp, origin, c0, faults, fallen, polls, pollNo,
                 overlap, doneSrt, afterDone, wrote, sent, asked, nfaults>>

\* What the steps of the job routes leave alone.
sideVars == <<codecVars, batchVars, shotVars>>
otherVars == <<sideVars, nfaults>>

\* get() found nothing under the key.
NoObject == [body |-> FALSE]

NoResponse == [code |-> 0]

\* The bucket holds no job and no poll is running.
NoJobs ==
  /\ store = [j \in JobIds |-> NoObject]
  /\ created = 0
  /\ submitResp = NoResponse
  /\ pc = [p \in Pollers |-> "idle"]
  /\ key = [p \in Pollers |-> 1]
  /\ job = [p \in Pollers |-> NoObject]
  /\ tasks = [p \in Pollers |-> <<>>]
  /\ progressed = [p \in Pollers |-> 0]
  /\ resp = [p \in Pollers |-> NoResponse]
  /\ origin = [j \in JobIds |-> <<>>]
  /\ c0 = [p \in Pollers |-> 0]
  /\ faults = [p \in Pollers |-> {}]
  /\ fallen = [j \in JobIds |-> {}]
  /\ polls = [j \in JobIds |-> 0]
  /\ pollNo = [p \in Pollers |-> 0]
  /\ overlap = [j \in JobIds |-> FALSE]
  /\ doneSrt = [j \in JobIds |-> Undefined]
  /\ afterDone = [p \in Pollers |-> FALSE]
  /\ wrote = [p \in Pollers |-> FALSE]
  /\ sent = [p \in Pollers |-> <<>>]
  /\ asked = [j \in JobIds |-> <<>>]
  /\ nfaults = 0

\* The codec has been given no text.
CodecOff ==
  /\ stage = "off"
  /\ codecIn = Undefined
  /\ codecCues = <<>>
  /\ codecEntries = <<>>
  /\ codecOut = Undefined
  /\ codecBack = <<>>

\* No invocation is followed request by request.
BatchOff ==
  /\ batchStage = "off"
  /\ batchStore = NoObject
  /\ batchLoaded = NoObject
  /\ batchJob = NoObject
  /\ batchTasks = <<>>
  /\ pending = {}
  /\ settledKinds = <<>>
  /\ settleOrder = <<>>
  /\ batchProgressed = 0
  /\ puts = 0
  /\ batchResp = NoResponse

\* The one-shot route has not been called.
ShotOff ==
  /\ shotStage = "off"
  /\ shotEntries = <<>>
  /\ translatedEntries = <<>>
  /\ shotCursor = 0
  /\ myIndex = <<>>
  /\ claimed = <<>>
  /\ shotKinds = <<>>
  /\ shotResp = NoResponse

Init == apiKey \in BOOLEAN /\ NoJobs /\ CodecOff /\ BatchOff /\ ShotOff

pollVars == <<pc, key, job, tasks, progressed, resp, c0, faults, fallen, polls, pollNo,
              overlap, doneSrt, afterDone, wrote, sent>>

\* ------------------------------------------------------------ submit

\* if (!body.srt)
MissingSrt(body) == body.srt = Undefined \/ body.srt = <<EmptyLine>>

\* As NoEntries, without the test.
NoEntriesUnchecked(entries) == FALSE

\* if (entries.length === 0)
NoEntries(entries) == Len(entries) = 0

\* As NewJob, but every entry starts with its source text as translation.
NewJobSourceAsDst(body, entries, now) ==
  [createdAt |-> now,
   targetLanguage |-> IF body.targetLanguage = Absent THEN "zh-CN"
                      ELSE body.targetLanguage,
   note |-> body.note,
   entries |-> [i \in DOMAIN entries |->
                  [index |-> entries[i].index, start |-> entries[i].start,
                   end |-> entries[i].end, src |-> entries[i].text,
                   dst |-> entries[i].text]],
   cursor |-> 0,
   completed |-> FALSE,
   total |-> Len(entries)]

\* The TranslateJob the submit route builds.
NewJob(body, entries, now) ==
  [createdAt |-> now,
   targetLanguage |-> IF body.targetLanguage = Absent THEN "zh-CN"
                      ELSE body.targetLanguage,
   note |-> body.note,
   entries |-> [i \in DOMAIN entries |->
                  [index |-> entries[i].index, start |-> entries[i].start,
                   end |-> entries[i].end, src |-> entries[i].text,
                   dst |-> Undefined]],
   cursor |-> 0,
   completed |-> FALSE,
   total |-> Len(entries)]

\* POST /api/translate/submit
Submit(body) ==
  /\ IF MissingSrt(body)
       THEN /\ submitResp' = [code |-> 400, error |-> "missing_srt"]
            /\ UNCHANGED <<store, created, origin, asked>>
       ELSE LET entries == Parsed[body] IN
            IF NoEntries(entries)
              THEN /\ submitResp' = [code |-> 400, error |-> "parse_failed_or_empty"]
                   /\ UNCHANGED <<store, created, origin, asked>>
              ELSE /\ created < MaxJobs
                   /\ \E now \in Clock :
                        store' = [store EXCEPT ![created + 1] = NewJob(body, entries, now)]
                   /\ created' = created + 1
                   /\ origin' = [origin EXCEPT ![created + 1] = entries]
                   /\ asked' = [asked EXCEPT ![created + 1] = [i \in DOMAIN entries |-> 0]]
                   /\ submitResp' = [code |-> 200, jobId |-> created + 1]
  /\ UNCHANGED <<apiKey, pollVars>>
  /\ UNCHANGED otherVars

\* ------------------------------------------------------------ poll

\* As ClaimLoop, without the test i < concurrency.
RECURSIVE ClaimLoopUnbounded(_, _, _, _)
ClaimLoopUnbounded(i, cursor, n, pushed) ==
  IF cursor < n
    THEN ClaimLoopUnbounded(i + 1, cursor + 1, n, Append(pushed, cursor))
    ELSE [cursor |-> cursor, tasks |-> pushed]

\* As ClaimLoop, without the test job.cursor < job.entries.length.
RECURSIVE ClaimLoopPastEnd(_, _, _, _)
ClaimLoopPastEnd(i, cursor, n, pushed) ==
  IF i < concurrency
    THEN ClaimLoopPastEnd(i + 1, cursor + 1, n, Append(pushed, cursor))
    ELSE [cursor |-> cursor, tasks |-> pushed]

\* for (let i = 0; i < concurrency && job.cursor < job.entries.length; i++)
\*   { const idx = job.cursor++; ... tasks.push(...) }
\* gives the cursor after the loop and the positions of the tasks pushed.
RECURSIVE ClaimLoop(_, _, _, _)
ClaimLoop(i, cursor, n, pushed) ==
  IF i < concurrency /\ cursor < n
    THEN ClaimLoop(i + 1, cursor + 1, n, Append(pushed, cursor))
    ELSE [cursor |-> cursor, tasks |-> pushed]

Range(f) == {f[x] : x \in DOMAIN f}

\* As Finished, but a full batch is taken for the end of the cues.
FinishedEarly(j) == j.cursor >= concurrency

\* As Finished, with > for >=.
FinishedLate(j) == j.cursor > Len(j.entries)

\* if (job.cursor >= job.entries.length) job.completed = true
Finished(j) == j.cursor >= Len(j.entries)

\* As BatchResolves, without the .catch of the tasks: a failed request
\* rejects Promise.all.
BatchResolvesNoCatch(o) == \A i \in DOMAIN o : o[i] # "fail"

\* Promise.all(tasks) resolves: each task ends in its .then or its .catch,
\* so no task rejects.
BatchResolves(o) == TRUE

\* entries.filter((e) => typeof e.dst === 'string' && e.dst.length >= 0).length
Processed(entries) == Cardinality({i \in DOMAIN entries : entries[i].dst # Undefined})

\* let progressed: counts the requests that ran their .then
Progressed(o) == Cardinality({i \in DOMAIN o : o[i] # "fail"})

Bump(n) == Min(n + 1, PollCap)

\* job.entries[idx].src; no text where the array has no entry at idx.
SrcAt(entries, idx) ==
  IF idx + 1 \in DOMAIN entries THEN entries[idx + 1].src ELSE Undefined

\* As Requests, but every request is sent a second time.
RequestsTwice(entries, pushed) ==
  LET once == [k \in DOMAIN pushed |->
                 [idx |-> pushed[k], text |-> SrcAt(entries, pushed[k])]]
  IN once \o once

\* translateOne(endpoint, apiKey, model, entry.src, ...) of every task
\* pushed: one fetch each, with the text of the entry at idx.
Requests(entries, pushed) ==
  [k \in DOMAIN pushed |-> [idx |-> pushed[k], text |-> SrcAt(entries, pushed[k])]]

\* The request counts of the cues after the requests have been sent.
RECURSIVE CountedFrom(_, _, _)
CountedFrom(counts, requests, k) ==
  IF k > Len(requests) THEN counts
  ELSE CountedFrom([counts EXCEPT ![requests[k].idx + 1] = Bump(@)], requests, k + 1)

Counted(counts, requests) == CountedFrom(counts, requests, 1)

\* Another invocation polls the same job at this moment.
InFlight(p, j) == \E q \in Pollers \ {p} : pc[q] # "idle" /\ key[q] = j

\* What every poll that finds the object records about itself.
Began(p, j) ==
  /\ key' = [key EXCEPT ![p] = j]
  /\ polls' = [polls EXCEPT ![j] = Bump(@)]
  /\ pollNo' = [pollNo EXCEPT ![p] = Bump(polls[j])]
  /\ afterDone' = [afterDone EXCEPT ![p] = doneSrt[j] # Undefined]
  /\ c0' = [c0 EXCEPT ![p] = store[j].cursor]
  /\ faults' = [faults EXCEPT ![p] = fallen[j]]
  /\ wrote' = [wrote EXCEPT ![p] = FALSE]

\* As PollNotFound, but the miss leaves an empty object under the key.
PollNotFoundWrites(p, j) ==
  /\ pc[p] = "idle"
  /\ store[j] = NoObject
  /\ resp' = [resp EXCEPT ![p] = [code |-> 404, status |-> "not_found"]]
  /\ store' = [store EXCEPT ![j] = [body |-> TRUE]]
  /\ key' = [key EXCEPT ![p] = j]
  /\ UNCHANGED <<apiKey, created, submitResp, pc, job, tasks, progressed,
                 origin, c0, faults, fallen, polls, pollNo, overlap, doneSrt,
                 afterDone, wrote, sent, asked>>
  /\ UNCHANGED otherVars

\* GET, lines 63-64: no object under the key.
PollNotFound(p, j) ==
  /\ pc[p] = "idle"
  /\ store[j] = NoObject
  /\ resp' = [resp EXCEPT ![p] = [code |-> 404, status |-> "not_found"]]
  /\ key' = [key EXCEPT ![p] = j]
  /\ tasks' = [tasks EXCEPT ![p] = <<>>]
  /\ sent' = [sent EXCEPT ![p] = <<>>]
  /\ UNCHANGED asked
  /\ progressed' = [progressed EXCEPT ![p] = 0]
  /\ pollNo' = [pollNo EXCEPT ![p] = 0]
  /\ afterDone' = [afterDone EXCEPT ![p] = FALSE]
  /\ c0' = [c0 EXCEPT ![p] = 0]
  /\ faults' = [faults EXCEPT ![p] = {}]
  /\ wrote' = [wrote EXCEPT ![p] = FALSE]
  /\ UNCHANGED <<apiKey, store, created, submitResp, pc, job, origin, fallen,
                 polls, overlap, doneSrt>>
  /\ UNCHANGED otherVars

\* As PollCompleted, but the record is removed once it has been served.
PollCompletedDeletes(p, j) ==
  /\ pc[p] = "idle"
  /\ store[j] # NoObject
  /\ store[j].completed
  /\ LET srt == rebuildSrt(store[j].entries) IN
       /\ resp' = [resp EXCEPT ![p] =
                     [code |-> 200, status |-> "completed", srt |-> srt]]
       /\ doneSrt' = [doneSrt EXCEPT ![j] = IF @ = Undefined THEN srt ELSE @]
  /\ Began(p, j)
  /\ store' = [store EXCEPT ![j] = NoObject]
  /\ tasks' = [tasks EXCEPT ![p] = <<>>]
  /\ sent' = [sent EXCEPT ![p] = <<>>]
  /\ UNCHANGED asked
  /\ progressed' = [progressed EXCEPT ![p] = 0]
  /\ UNCHANGED <<apiKey, created, submitResp, pc, job, origin, fallen, overlap>>
  /\ UNCHANGED otherVars

\* GET, lines 63-69: the loaded record is completed.
PollCompleted(p, j) ==
  /\ pc[p] = "idle"
  /\ store[j] # NoObject
  /\ store[j].completed
  /\ LET srt == rebuildSrt(store[j].entries) IN
       /\ resp' = [resp EXCEPT ![p] =
                     [code |-> 200, status |-> "completed", srt |-> srt]]
       /\ doneSrt' = [doneSrt EXCEPT ![j] = IF @ = Undefined THEN srt ELSE @]
  /\ Began(p, j)
  /\ tasks' = [tasks EXCEPT ![p] = <<>>]
  /\ sent' = [sent EXCEPT ![p] = <<>>]
  /\ UNCHANGED asked
  /\ progressed' = [progressed EXCEPT ![p] = 0]
  /\ UNCHANGED <<apiKey, store, created, submitResp, pc, job, origin, fallen,
                 overlap>>
  /\ UNCHANGED otherVars

\* As PollNoKey, but the API key is looked at before the completed flag.
PollNoKeyFirst(p, j) ==
  /\ pc[p] = "idle"
  /\ store[j] # NoObject
  /\ ~apiKey
  /\ resp' = [resp EXCEPT ![p] = [code |-> 500, status |-> "error"]]
  /\ Began(p, j)
  /\ tasks' = [tasks EXCEPT ![p] = <<>>]
  /\ sent' = [sent EXCEPT ![p] = <<>>]
  /\ UNCHANGED asked
  /\ progressed' = [progressed EXCEPT ![p] = 0]
  /\ UNCHANGED <<apiKey, store, created, submitResp, pc, job, origin, fallen,
                 overlap, doneSrt>>
  /\ UNCHANGED otherVars

\* GET, lines 63-74: the record is not completed and there is no API key.
PollNoKey(p, j) ==
  /\ pc[p] = "idle"
  /\ store[j] # NoObject
  /\ ~store[j].completed
  /\ ~apiKey
  /\ resp' = [resp EXCEPT ![p] = [code |-> 500, status |-> "error"]]
  /\ Began(p, j)
  /\ tasks' = [tasks EXCEPT ![p] = <<>>]
  /\ sent' = [sent EXCEPT ![p] = <<>>]
  /\ UNCHANGED asked
  /\ progressed' = [progressed EXCEPT ![p] = 0]
  /\ UNCHANGED <<apiKey, store, created, submitResp, pc, job, origin, fallen,
                 overlap, doneSrt>>
  /\ UNCHANGED otherVars

\* As PollClaim, but the advanced cursor is put in the store as soon as the
\* batch is claimed.
PollClaimPersists(p, j) ==
  /\ pc[p] = "idle"
  /\ store[j] # NoObject
  /\ ~store[j].completed
  /\ apiKey
  /\ LET loaded == store[j]
         loop == ClaimLoop(0, loaded.cursor, Len(loaded.entries), <<>>)
         claiming == [loaded EXCEPT !.cursor = loop.cursor]
     IN /\ pc' = [pc EXCEPT ![p] = "translating"]
        /\ job' = [job EXCEPT ![p] = claiming]
        /\ store' = [store EXCEPT ![j] = claiming]
        /\ tasks' = [tasks EXCEPT ![p] = loop.tasks]
        /\ sent' = [sent EXCEPT ![p] = Requests(loaded.entries, tasks'[p])]
        /\ asked' = [asked EXCEPT ![j] = Counted(@, sent'[p])]
        /\ progressed' = [progressed EXCEPT ![p] = 0]
  /\ Began(p, j)
  /\ overlap' = [overlap EXCEPT ![j] = @ \/ InFlight(p, j)]
  /\ resp' = [resp EXCEPT ![p] = NoResponse]
  /\ UNCHANGED <<apiKey, created, submitResp, origin, fallen, doneSrt>>
  /\ UNCHANGED otherVars

\* GET, lines 63-87: load the record, claim the batch, dispatch its requests.
\* With no task (lines 88-90) the record is marked completed at once.
PollClaim(p, j) ==
  /\ pc[p] = "idle"
  /\ store[j] # NoObject
  /\ ~store[j].completed
  /\ apiKey
  /\ LET loaded == store[j]
         loop == ClaimLoop(0, loaded.cursor, Len(loaded.entries), <<>>)
         claiming == [loaded EXCEPT !.cursor = loop.cursor]
     IN /\ IF Len(loop.tasks) = 0
             THEN /\ pc' = [pc EXCEPT ![p] = "storing"]
                  /\ job' = [job EXCEPT ![p] = [claiming EXCEPT !.completed = TRUE]]
             ELSE /\ pc' = [pc EXCEPT ![p] = "translating"]
                  /\ job' = [job EXCEPT ![p] = claiming]
        /\ tasks' = [tasks EXCEPT ![p] = loop.tasks]
        /\ sent' = [sent EXCEPT ![p] = Requests(loaded.entries, tasks'[p])]
        /\ asked' = [asked EXCEPT ![j] = Counted(@, sent'[p])]
        /\ progressed' = [progressed EXCEPT ![p] = 0]
  /\ Began(p, j)
  /\ overlap' = [overlap EXCEPT ![j] = @ \/ InFlight(p, j)]
  /\ resp' = [resp EXCEPT ![p] = NoResponse]
  /\ UNCHANGED <<apiKey, store, created, submitResp, origin, fallen, doneSrt>>
  /\ UNCHANGED otherVars

\* As Settled, but the cursor goes back to the first cue whose request
\* failed, so that the next poll asks for it again.
SettledRewinds(j, S, o) ==
  LET entries ==
        [i \in DOMAIN j.entries |->
           IF (i - 1) \in S
             THEN SettledEntry(j.entries[i], translateOne(j.entries[i].src, o[i - 1]))
             ELSE j.entries[i]]
      failed == {i \in S : o[i] = "fail"}
      after == [j EXCEPT !.entries = entries,
                         !.cursor = IF failed = {} THEN @
                                    ELSE CHOOSE i \in failed : \A x \in failed : i <= x]
  IN [after EXCEPT !.completed = IF Finished(after) THEN TRUE ELSE @]

\* As Settled, but every callback of the batch sees the text of the first
\* entry claimed.
SettledCrossed(j, S, o) ==
  LET first == CHOOSE i \in S : \A x \in S : i <= x
      entries ==
        [i \in DOMAIN j.entries |->
           IF (i - 1) \in S
             THEN SettledEntry(j.entries[i],
                               translateOne(j.entries[first + 1].src, o[i - 1]))
             ELSE j.entries[i]]
      after == [j EXCEPT !.entries = entries]
  IN [after EXCEPT !.completed = IF Finished(after) THEN TRUE ELSE @]

\* The record after the requests of the batch S have settled with outcomes o.
Settled(j, S, o) ==
  LET entries ==
        [i \in DOMAIN j.entries |->
           IF (i - 1) \in S
             THEN SettledEntry(j.entries[i], translateOne(j.entries[i].src, o[i - 1]))
             ELSE j.entries[i]]
      after == [j EXCEPT !.entries = entries]
  IN [after EXCEPT !.completed = IF Finished(after) THEN TRUE ELSE @]

\* GET, lines 93-94: await Promise.all(tasks), then the completed flag.
\* A rejected Promise.all would end the handler in an unhandled error.
PollSettle(p) ==
  /\ pc[p] = "translating"
  /\ \E o \in Outcomes(Range(tasks[p])) :
       IF BatchResolves(o)
         THEN /\ pc' = [pc EXCEPT ![p] = "storing"]
              /\ faults' = [faults EXCEPT ![p] =
                              @ \cup {<<i, o[i]>> : i \in {x \in DOMAIN o : o[x] # "ok"}}]
              /\ progressed' = [progressed EXCEPT ![p] = Progressed(o)]
              /\ job' = [job EXCEPT ![p] = Settled(job[p], Range(tasks[p]), o)]
              /\ UNCHANGED resp
         ELSE /\ pc' = [pc EXCEPT ![p] = "idle"]
              /\ resp' = [resp EXCEPT ![p] = [code |-> 500, status |-> "unhandled"]]
              /\ UNCHANGED <<job, faults, progressed>>
  /\ UNCHANGED <<apiKey, store, created, submitResp, key, tasks, origin, c0,
                 fallen, polls, pollNo, overlap, doneSrt, afterDone, wrote, sent,
                 asked>>
  /\ UNCHANGED otherVars

\* As PollResponse, but the srt is attached whatever the status.
PollResponseAlwaysSrt(j, pushed, n) ==
  [code |-> 200, status |-> IF j.completed THEN "completed" ELSE "processing",
   progressed |-> n, completed |-> j.completed, cursor |-> j.cursor,
   processed |-> Processed(j.entries), total |-> j.total,
   srt |-> rebuildSrt(j.entries)]

\* The response of lines 97-98, or of line 91 when there was no task.
PollResponse(j, pushed, n) ==
  IF Len(pushed) = 0
    THEN [code |-> 200, status |-> "completed", srt |-> rebuildSrt(j.entries)]
  ELSE IF j.completed
    THEN [code |-> 200, status |-> "completed", progressed |-> n,
          completed |-> TRUE, cursor |-> j.cursor, processed |-> Processed(j.entries),
          total |-> j.total, srt |-> rebuildSrt(j.entries)]
  ELSE [code |-> 200, status |-> "processing", progressed |-> n,
        completed |-> FALSE, cursor |-> j.cursor, processed |-> Processed(j.entries),
        total |-> j.total]

\* GET, lines 95-98 (or 90-91): write the record back and answer.
PollStore(p) ==
  /\ pc[p] = "storing"
  /\ pc' = [pc EXCEPT ![p] = "idle"]
  /\ store' = [store EXCEPT ![key[p]] = job[p]]
  /\ fallen' = [fallen EXCEPT ![key[p]] = faults[p]]
  /\ wrote' = [wrote EXCEPT ![p] = TRUE]
  /\ LET r == PollResponse(job[p], tasks[p], progressed[p]) IN
       /\ resp' = [resp EXCEPT ![p] = r]
       /\ doneSrt' = [doneSrt EXCEPT ![key[p]] =
                        IF @ = Undefined /\ r.status = "completed" THEN r.srt ELSE @]
  /\ UNCHANGED <<apiKey, created, submitResp, key, job, tasks, progressed,
                 origin, c0, faults, polls, pollNo, overlap, afterDone, sent,
                 asked>>
  /\ UNCHANGED otherVars

\* ------------------------------------------------------------ specification

Next ==
  \/ \E body \in SubmitBodies : Submit(body)
  \/ \E p \in Pollers, j \in JobIds : PollNotFound(p, j)
  \/ \E p \in Pollers, j \in JobIds : PollCompleted(p, j)
  \/ \E p \in Pollers, j \in JobIds : PollNoKey(p, j)
  \/ \E p \in Pollers, j \in JobIds : PollClaim(p, j)
  \/ \E p \in Pollers : PollSettle(p)
  \/ \E p \in Pollers : PollStore(p)

Spec == Init /\ [][Next]_vars

\* Polls of every stored job keep being issued, and every poll that has
\* begun runs on to its store write.
Fairness ==
  /\ \A p \in Pollers : WF_vars(PollSettle(p)) /\ WF_vars(PollStore(p))
  /\ \A j \in JobIds : SF_vars(\E p \in Pollers : PollClaim(p, j))

FairSpec == Spec /\ Fairness

\* ------------------------------------------------------------ faults

\* The host ends an invocation that has claimed its batch and has not yet
\* written: nothing is answered, and what the invocation held is gone.
PollCrash(p) ==
  /\ nfaults < MaxFaults
  /\ pc[p] \in {"translating", "storing"}
  /\ pc' = [pc EXCEPT ![p] = "idle"]
  /\ UNCHANGED <<apiKey, store, created, submitResp, key, job, tasks, progressed,
                 resp, origin, c0, faults, fallen, polls, pollNo, overlap,
                 doneSrt, afterDone, wrote, sent, asked>>
  /\ nfaults' = nfaults + 1
  /\ UNCHANGED sideVars

\* The error a handler that throws is answered with.
Unhandled == [code |-> 500, status |-> "unhandled"]

\* GET, line 63: env.AUDIO_BUCKET.get rejects; nothing catches it.
PollGetFails(p, j) ==
  /\ nfaults < MaxFaults
  /\ pc[p] = "idle"
  /\ resp' = [resp EXCEPT ![p] = Unhandled]
  /\ key' = [key EXCEPT ![p] = j]
  /\ tasks' = [tasks EXCEPT ![p] = <<>>]
  /\ sent' = [sent EXCEPT ![p] = <<>>]
  /\ progressed' = [progressed EXCEPT ![p] = 0]
  /\ pollNo' = [pollNo EXCEPT ![p] = 0]
  /\ afterDone' = [afterDone EXCEPT ![p] = FALSE]
  /\ c0' = [c0 EXCEPT ![p] = 0]
  /\ faults' = [faults EXCEPT ![p] = {}]
  /\ wrote' = [wrote EXCEPT ![p] = FALSE]
  /\ UNCHANGED <<apiKey, store, created, submitResp, pc, job, origin, fallen,
                 polls, overlap, doneSrt, asked>>
  /\ nfaults' = nfaults + 1
  /\ UNCHANGED sideVars

\* As PollPutFails, but the rejection of the put is caught and the
\* snapshot is answered all the same.
PollPutFailsAbsorbed(p) ==
  /\ nfaults < MaxFaults
  /\ pc[p] = "storing"
  /\ pc' = [pc EXCEPT ![p] = "idle"]
  /\ resp' = [resp EXCEPT ![p] = PollResponse(job[p], tasks[p], progressed[p])]
  /\ UNCHANGED <<apiKey, store, created, submitResp, key, job, tasks, progressed,
                 origin, c0, faults, fallen, polls, pollNo, overlap, doneSrt,
                 afterDone, wrote, sent, asked>>
  /\ nfaults' = nfaults + 1
  /\ UNCHANGED sideVars

\* GET, line 95 (or 90): env.AUDIO_BUCKET.put rejects; nothing catches it,
\* so the response of line 98 is never built.
PollPutFails(p) ==
  /\ nfaults < MaxFaults
  /\ pc[p] = "storing"
  /\ pc' = [pc EXCEPT ![p] = "idle"]
  /\ resp' = [resp EXCEPT ![p] = Unhandled]
  /\ UNCHANGED <<apiKey, store, created, submitResp, key, job, tasks, progressed,
                 origin, c0, faults, fallen, polls, pollNo, overlap, doneSrt,
                 afterDone, wrote, sent, asked>>
  /\ nfaults' = nfaults + 1
  /\ UNCHANGED sideVars

\* LLM_API_KEY is taken out of the environment.
KeyRevoked ==
  /\ nfaults < MaxFaults
  /\ apiKey
  /\ apiKey' = FALSE
  /\ UNCHANGED <<store, created, submitResp, origin, asked, pollVars>>
  /\ nfaults' = nfaults + 1
  /\ UNCHANGED sideVars

FaultNext ==
  \/ Next
  \/ \E p \in Pollers : PollCrash(p)
  \/ \E p \in Pollers, j \in JobIds : PollGetFails(p, j)
  \/ \E p \in Pollers : PollPutFails(p)
  \/ KeyRevoked

FaultSpec == Init /\ [][FaultNext]_vars

\* ------------------------------------------------------------ codec

\* The lines the texts given to the codec are made of.
Alphabet ==
  { NumLine(2), NumLine(1), TimeLine(0, 2), TxtLine("Hello"),
    EndsCR(TxtLine("World"), 2), EmptyLine, SpaceLine }

\* The texts of at most MaxLines lines.
CodecInputs == UNION { [1 .. n -> Alphabet] : n \in 1 .. MaxLines }

CodecInit ==
  /\ apiKey = FALSE
  /\ NoJobs
  /\ stage = "input"
  /\ codecIn \in CodecInputs
  /\ codecCues = <<>>
  /\ codecEntries = <<>>
  /\ codecOut = Undefined
  /\ codecBack = <<>>
  /\ BatchOff
  /\ ShotOff

\* parseSrt(body.srt)
CodecParse ==
  /\ stage = "input"
  /\ stage' = "parsed"
  /\ codecCues' = parseSrt(codecIn)
  /\ UNCHANGED <<codecIn, codecEntries, codecOut, codecBack, serviceVars,
                 batchVars, shotVars>>

\* The entries of the job made of the cues, with the entries at the
\* positions S translated.
CodecTranslate(S) ==
  /\ stage = "parsed"
  /\ stage' = "translated"
  /\ LET made == NewJob(Body(codecIn, Absent, Absent), codecCues, 0).entries IN
       codecEntries' =
         [i \in DOMAIN made |->
            IF i \in S
              THEN SettledEntry(made[i], translateOne(made[i].src, "ok"))
              ELSE made[i]]
  /\ UNCHANGED <<codecIn, codecCues, codecOut, codecBack, serviceVars,
                 batchVars, shotVars>>

\* rebuildSrt(job.entries)
CodecSerialize ==
  /\ stage = "translated"
  /\ stage' = "serialized"
  /\ codecOut' = rebuildSrt(codecEntries)
  /\ UNCHANGED <<codecIn, codecCues, codecEntries, codecBack, serviceVars,
                 batchVars, shotVars>>

\* parseSrt of the text rebuildSrt gave
CodecReparse ==
  /\ stage = "serialized"
  /\ stage' = "reparsed"
  /\ codecBack' = parseSrt(codecOut)
  /\ UNCHANGED <<codecIn, codecCues, codecEntries, codecOut, serviceVars,
                 batchVars, shotVars>>

CodecNext ==
  \/ CodecParse
  \/ \E S \in SUBSET DOMAIN codecCues : CodecTranslate(S)
  \/ CodecSerialize
  \/ CodecReparse

CodecSpec == CodecInit /\ [][CodecNext]_vars

\* ------------------------------------------------------------ one batch, request by request

\* The records an invocation can load: a new job of n cues, and a job of
\* concurrency + n cues whose first batch has been written.
BatchRecords ==
  LET now == CHOOSE t \in Clock : TRUE
      new(n) == NewJob(Body(Doc(n), Absent, Absent), parseSrt(Doc(n)), now)
      second(n) ==
        LET loop == ClaimLoop(0, 0, concurrency + n, <<>>)
        IN Settled([new(concurrency + n) EXCEPT !.cursor = loop.cursor],
                   Range(loop.tasks), [i \in Range(loop.tasks) |-> "ok"])
  IN {new(n) : n \in 1 .. MaxBatch} \cup {second(n) : n \in 1 .. MaxBatch}

\* GET, lines 62-70: the record is found, not completed, and the key is set.
BatchInit ==
  /\ apiKey = TRUE
  /\ NoJobs
  /\ CodecOff
  /\ batchStage = "loaded"
  /\ batchStore \in BatchRecords
  /\ batchLoaded = batchStore
  /\ batchJob = batchStore
  /\ batchTasks = <<>>
  /\ pending = {}
  /\ settledKinds = <<>>
  /\ settleOrder = <<>>
  /\ batchProgressed = 0
  /\ puts = 0
  /\ batchResp = NoResponse
  /\ ShotOff

\* GET, lines 78-87: the claim loop; every task pushed is a request under way.
BatchClaim ==
  /\ batchStage = "loaded"
  /\ LET loop == ClaimLoop(0, batchJob.cursor, Len(batchJob.entries), <<>>) IN
       /\ batchTasks' = loop.tasks
       /\ pending' = Range(loop.tasks)
       /\ batchJob' = [batchJob EXCEPT
                         !.cursor = loop.cursor,
                         !.completed = IF Len(loop.tasks) = 0 THEN TRUE ELSE @]
  /\ batchStage' = "claimed"
  /\ UNCHANGED <<batchStore, batchLoaded, settledKinds, settleOrder,
                 batchProgressed, puts, batchResp>>
  /\ UNCHANGED <<serviceVars, codecVars, shotVars>>

\* As BatchSettleOne, but every callback also writes the record back.
BatchSettleOneAndPut(i, kind) ==
  /\ batchStage = "claimed"
  /\ i \in pending
  /\ LET entry == batchJob.entries[i + 1]
         r == translateOne(entry.src, kind)
     IN /\ batchJob' = [batchJob EXCEPT !.entries[i + 1] = SettledEntry(entry, r)]
        /\ batchProgressed' = IF r.ok THEN batchProgressed + 1 ELSE batchProgressed
  /\ batchStore' = batchJob'
  /\ puts' = puts + 1
  /\ pending' = pending \ {i}
  /\ settledKinds' = [x \in DOMAIN settledKinds \cup {i} |->
                        IF x = i THEN kind ELSE settledKinds[x]]
  /\ settleOrder' = Append(settleOrder, i)
  /\ UNCHANGED <<batchStage, batchLoaded, batchTasks, batchResp>>
  /\ UNCHANGED <<serviceVars, codecVars, shotVars>>

\* As BatchSettleOne, but the tasks have no .catch: the first request that
\* fails rejects Promise.all and the handler throws.
BatchSettleOneFailFast(i, kind) ==
  /\ batchStage = "claimed"
  /\ i \in pending
  /\ LET entry == batchJob.entries[i + 1]
         r == translateOne(entry.src, kind)
     IN IF r.ok
          THEN /\ batchJob' = [batchJob EXCEPT !.entries[i + 1] = SettledEntry(entry, r)]
               /\ batchProgressed' = batchProgressed + 1
               /\ UNCHANGED <<batchStage, batchResp>>
          ELSE /\ batchStage' = "done"
               /\ batchResp' = Unhandled
               /\ UNCHANGED <<batchJob, batchProgressed>>
  /\ pending' = pending \ {i}
  /\ settledKinds' = [x \in DOMAIN settledKinds \cup {i} |->
                        IF x = i THEN kind ELSE settledKinds[x]]
  /\ settleOrder' = Append(settleOrder, i)
  /\ UNCHANGED <<batchStore, batchLoaded, batchTasks, puts>>
  /\ UNCHANGED <<serviceVars, codecVars, shotVars>>

\* GET, lines 82-85: the request of position i settles and its .then
\* (kind "ok" or "empty") or its .catch (kind "fail") runs.
BatchSettleOne(i, kind) ==
  /\ batchStage = "claimed"
  /\ i \in pending
  /\ LET entry == batchJob.entries[i + 1]
         r == translateOne(entry.src, kind)
     IN /\ batchJob' = [batchJob EXCEPT !.entries[i + 1] = SettledEntry(entry, r)]
        /\ batchProgressed' = IF r.ok THEN batchProgressed + 1 ELSE batchProgressed
  /\ pending' = pending \ {i}
  /\ settledKinds' = [x \in DOMAIN settledKinds \cup {i} |->
                        IF x = i THEN kind ELSE settledKinds[x]]
  /\ settleOrder' = Append(settleOrder, i)
  /\ UNCHANGED <<batchStage, batchStore, batchLoaded, batchTasks, puts, batchResp>>
  /\ UNCHANGED <<serviceVars, codecVars, shotVars>>

\* GET, lines 88-98: Promise.all(tasks) has resolved (or there was no task);
\* the completed flag, the put and the response.
BatchStore ==
  /\ batchStage = "claimed"
  /\ pending = {}
  /\ LET after == [batchJob EXCEPT !.completed = IF Finished(batchJob) THEN TRUE ELSE @] IN
       /\ batchJob' = after
       /\ batchStore' = after
       /\ batchResp' = PollResponse(after, batchTasks, batchProgressed)
  /\ puts' = puts + 1
  /\ batchStage' = "done"
  /\ UNCHANGED <<batchLoaded, batchTasks, pending, settledKinds, settleOrder,
                 batchProgressed>>
  /\ UNCHANGED <<serviceVars, codecVars, shotVars>>

BatchNext ==
  \/ BatchClaim
  \/ \E i \in pending, kind \in OutcomeKinds : BatchSettleOne(i, kind)
  \/ BatchStore

BatchSpec == BatchInit /\ [][BatchNext]_vars

\* ------------------------------------------------------------ one-shot route

\* `${e.index}\n${e.start} --> ${e.end}\n${e.text}`
TextBlock(e) == <<NumLine(e.index), TimeLine(e.start, e.end)>> \o e.text

\* entries.map(...).join("\n\n") of the entries lo .. hi
RECURSIVE JoinTextBlocks(_, _, _)
JoinTextBlocks(entries, lo, hi) ==
  IF lo > hi THEN <<>>
  ELSE IF lo = hi THEN TextBlock(entries[lo])
  ELSE LET mid == (lo + hi) \div 2
       IN JoinTextBlocks(entries, lo, mid) \o <<EmptyLine>>
            \o JoinTextBlocks(entries, mid + 1, hi)

\* rebuildSrt of the one-shot route
mergedSrt(entries) == JoinLines(JoinTextBlocks(entries, 1, Len(entries)))

\* translateChunk: ok = FALSE when it throws, t = the trimmed content.
translateChunk(text, kind) ==
  IF kind = "fail" THEN [ok |-> FALSE, t |-> <<EmptyLine>>]
  ELSE IF kind = "empty" THEN [ok |-> TRUE, t |-> <<EmptyLine>>]
  ELSE [ok |-> TRUE, t |-> ZH(text)]

\* const translatedText = await translateChunk(...).catch(() => entry.text);
\* { ...entry, text: translatedText || entry.text }
Translated(entry, kind) ==
  LET r == translateChunk(entry.text, kind)
      translatedText == IF r.ok THEN r.t ELSE entry.text
  IN [entry EXCEPT !.text = IF Truthy(translatedText) THEN translatedText ELSE @]

\* As TakeIndex, with ++cursor for cursor++.
TakeIndexPreIncrement(c) == [myIndex |-> c + 1, cursor |-> c + 1]

\* const myIndex = cursor++
TakeIndex(c) == [myIndex |-> c, cursor |-> c + 1]

\* myIndex of a worker that has left its loop.
Broke == -1

\* if (myIndex >= entries.length) break
Held(i, n) == IF i >= n THEN Broke ELSE i

\* Math.min(concurrency, entries.length)
WorkerCount(n) == Min(oneShotConcurrency, n)

\* The bodies sent to the one-shot route.
ShotBodies ==
  { Body(Undefined, Absent, Absent),
    Body(Junk, Absent, Absent),
    Body(Doc(1), "en", "anime"),
    Body(Doc(2), Absent, Absent) }
  \cup { Body(Doc(oneShotConcurrency + x), Absent, Absent) : x \in 1 .. MaxExtra }

\* parseSrt(body.srt) of every body, computed once.
ShotParsed == [body \in ShotBodies |-> parseSrt(body.srt)]

ShotInit ==
  /\ apiKey \in BOOLEAN
  /\ NoJobs
  /\ CodecOff
  /\ BatchOff
  /\ shotStage = "idle"
  /\ shotEntries = <<>>
  /\ translatedEntries = <<>>
  /\ shotCursor = 0
  /\ myIndex = <<>>
  /\ claimed = <<>>
  /\ shotKinds = <<>>
  /\ shotResp = NoResponse

\* POST, lines 117-140: the checks, and the state the workers share.
ShotStart(body) ==
  /\ shotStage = "idle"
  /\ IF MissingSrt(body)
       THEN /\ shotResp' = [code |-> 400, error |-> "missing_srt"]
            /\ shotStage' = "answered"
            /\ UNCHANGED <<shotEntries, translatedEntries, claimed>>
     ELSE IF NoEntries(ShotParsed[body])
       THEN /\ shotResp' = [code |-> 400, error |-> "parse_failed_or_empty"]
            /\ shotStage' = "answered"
            /\ UNCHANGED <<shotEntries, translatedEntries, claimed>>
     ELSE IF ~apiKey
       THEN /\ shotResp' = [code |-> 500, error |-> "missing_api_key"]
            /\ shotStage' = "answered"
            /\ UNCHANGED <<shotEntries, translatedEntries, claimed>>
     ELSE LET entries == ShotParsed[body] IN
          /\ shotEntries' = entries
          /\ translatedEntries' = [i \in 1 .. Len(entries) |-> Undefined]
          /\ claimed' = [i \in 1 .. Len(entries) |-> 0]
          /\ shotStage' = "starting"
          /\ UNCHANGED shotResp
  /\ UNCHANGED <<shotCursor, myIndex, shotKinds>>
  /\ UNCHANGED <<serviceVars, codecVars, batchVars>>

\* The positions taken once more when index i is taken.
Taken(counts, i) ==
  IF i >= 0 /\ i < Len(counts) THEN [counts EXCEPT ![i + 1] = @ + 1] ELSE counts

\* POST, line 162: Array.from({ length }, () => worker()) calls the next
\* worker, which runs up to its first await; no request settles before the
\* last worker has been called.
ShotSpawn ==
  /\ shotStage = "starting"
  /\ LET n == Len(shotEntries)
         t == TakeIndex(shotCursor)
     IN /\ shotCursor' = t.cursor
        /\ myIndex' = Append(myIndex, Held(t.myIndex, n))
        /\ claimed' = Taken(claimed, t.myIndex)
        /\ shotStage' = IF Len(myIndex) + 1 >= WorkerCount(n) THEN "running"
                        ELSE "starting"
  /\ UNCHANGED <<shotEntries, translatedEntries, shotKinds, shotResp>>
  /\ UNCHANGED <<serviceVars, codecVars, batchVars>>

\* The number of requests that have settled.
Settlements == Cardinality(DOMAIN shotKinds)

\* POST, lines 144-159: the request of worker w settles; the worker stores
\* its entry, goes round its loop and takes the next index.
ShotResume(w, kind) ==
  /\ shotStage = "running"
  /\ myIndex[w] # Broke
  /\ kind = "ok" \/ myIndex[w] \in ShotFaultPositions
  /\ myIndex[w] < Settlements + Window
  /\ LET n == Len(shotEntries)
         t == TakeIndex(shotCursor)
     IN /\ translatedEntries' =
             [translatedEntries EXCEPT
                ![myIndex[w] + 1] = Translated(shotEntries[myIndex[w] + 1], kind)]
        /\ shotCursor' = t.cursor
        /\ myIndex' = [myIndex EXCEPT ![w] = Held(t.myIndex, n)]
        /\ claimed' = Taken(claimed, t.myIndex)
  /\ shotKinds' = [x \in DOMAIN shotKinds \cup {myIndex[w]} |->
                     IF x = myIndex[w] THEN kind ELSE shotKinds[x]]
  /\ UNCHANGED <<shotStage, shotEntries, shotResp>>
  /\ UNCHANGED <<serviceVars, codecVars, batchVars>>

\* POST, lines 162-165: every worker has returned; the srt is answered.
ShotAnswer ==
  /\ shotStage = "running"
  /\ \A w \in DOMAIN myIndex : myIndex[w] = Broke
  /\ shotResp' = [code |-> 200, srt |-> mergedSrt(translatedEntries)]
  /\ shotStage' = "answered"
  /\ UNCHANGED <<shotEntries, translatedEntries, shotCursor, myIndex, claimed, shotKinds>>
  /\ UNCHANGED <<serviceVars, codecVars, batchVars>>

ShotNext ==
  \/ \E body \in ShotBodies : ShotStart(body)
  \/ ShotSpawn
  \/ \E w \in DOMAIN myIndex, kind \in OutcomeKinds : ShotResume(w, kind)
  \/ ShotAnswer

OneShotSpec == ShotInit /\ [][ShotNext]_vars

\* ------------------------------------------------------------ claims

\* The poller has returned from a poll that found the record of its job.
Returned(p) == pc[p] = "idle" /\ resp[p].code = 200

\* The cue a subtitle text shows at position i (0-based), read back from
\* the text, and the cue the job was submitted with at that position.
ShownCue(srt, i) == parseSrt(srt)[i + 1]
SourceCue(j, i) == origin[j][i + 1]

\* C1. Cursor monotonicity: the cursor of a stored record never decreases,
\* whatever the interleaving of the polls of the job.
C1_CursorNeverDecreases ==
  [][\A j \in JobIds :
       store[j] # NoObject =>
         store'[j] # NoObject /\ store'[j].cursor >= store[j].cursor]_vars

\* C2. Completion stability: a poll that begins after some poll of the job
\* has returned completed = true returns completed too, with the same srt.
C2_CompletionStable ==
  \A p \in Pollers :
    (Returned(p) /\ afterDone[p]) =>
      /\ resp[p].status = "completed"
      /\ resp[p].srt = doneSrt[key[p]]

\* The positions of the poller's record whose request failed, and those
\* whose request gave no translation.
Failed(p) == {f[1] : f \in {g \in faults[p] : g[2] = "fail"}}
Faulty(p) == {f[1] : f \in faults[p]}

\* C3. Fallback correctness: a completed response shows every cue whose
\* request failed at its position, with its index, its timestamps and its
\* source text, and has as many cues as the job; failed requests do not
\* keep the poll that reaches the end of the cues from completing the job.
C3_FallbackCorrect ==
  \A p \in Pollers :
    /\ (Returned(p) /\ resp[p].status = "completed") =>
         /\ Len(parseSrt(resp[p].srt)) = Len(origin[key[p]])
         /\ \A i \in Failed(p) : ShownCue(resp[p].srt, i) = SourceCue(key[p], i)
    /\ (pc[p] = "storing" /\ job[p].cursor = Len(origin[key[p]])) =>
         job[p].completed

\* A completed response that holds a cue whose request failed in an earlier
\* poll and a cue whose request failed in the poll that completed the job.
C3_Witness ==
  \E p \in Pollers :
    /\ Returned(p) /\ resp[p].status = "completed"
    /\ \E i \in Failed(p) : i < c0[p]
    /\ \E i \in Failed(p) : i >= c0[p]

\* The batch a poll claims from cursor c of a job of T cues.
BatchSize(c, T) == Min(concurrency, T - c)

\* C4. Batch bound: a poll that loaded cursor c holds exactly the tasks
\* c .. c+k-1, k = min(concurrency, total - c), each once and never more
\* than concurrency, and the record it writes back has cursor c + k.
C4_BatchBound ==
  [][\A p \in Pollers :
       LET T == Len(origin'[key'[p]])
           k == BatchSize(c0'[p], T)
       IN /\ pc'[p] \in {"translating", "storing"} =>
               /\ tasks'[p] = [i \in 1 .. k |-> c0'[p] + i - 1]
               /\ Len(tasks'[p]) <= concurrency
               /\ Cardinality(Range(tasks'[p])) = Len(tasks'[p])
               /\ job'[p].cursor = c0'[p] + k
          /\ (pc[p] = "storing" /\ pc'[p] = "idle") =>
               store'[key[p]].cursor = c0[p] + k]_vars

\* A poll has claimed a full batch of a job that has more cues, and another
\* poll has written back the batch of the one cue that remained.
C4_Witness ==
  /\ \E p \in Pollers :
       /\ pc[p] = "storing" /\ c0[p] = 0 /\ Len(tasks[p]) = concurrency
       /\ job[p].total > concurrency
  /\ \E p \in Pollers :
       /\ Returned(p) /\ c0[p] = concurrency /\ tasks[p] = <<concurrency>>
       /\ resp[p].cursor = concurrency + 1

\* C5. Eventual completion: with the API key set, from some moment on every
\* stored job is completed and stays completed, whichever requests fail and
\* however the polls overlap (a stored record is never removed, so this is
\* "once stored, eventually completed for good").
C5_EventuallyCompleted ==
  <>[](\A j \in JobIds : (apiKey /\ store[j] # NoObject) => store[j].completed)

\* A job completed although polls overlapped and a request failed.
C5_Witness ==
  \E j \in JobIds :
    /\ store[j] # NoObject /\ store[j].completed
    /\ overlap[j] /\ \E f \in fallen[j] : f[2] = "fail"

\* ceil(T / concurrency)
PollsNeeded(T) == (T + concurrency - 1) \div concurrency

\* C6. While the polls of a job do not overlap, poll number n returns
\* completed exactly when n >= ceil(T / concurrency); the first poll of a
\* job of at most concurrency cues returns every cue with its index and
\* timestamps and with the translation of its text (the source text where
\* the request gave none).
C6_FirstCompletedPoll ==
  \A p \in Pollers :
    (Returned(p) /\ ~overlap[key[p]]) =>
      LET T == Len(origin[key[p]]) IN
      /\ resp[p].status = "completed" <=> pollNo[p] >= PollsNeeded(T)
      /\ (pollNo[p] = 1 /\ T <= concurrency) =>
           /\ Len(parseSrt(resp[p].srt)) = T
           /\ \A i \in 0 .. T - 1 :
                ShownCue(resp[p].srt, i) =
                  [SourceCue(key[p], i) EXCEPT
                     !.text = IF i \in Faulty(p) THEN @ ELSE ZH(@)]

\* The first poll of a job of exactly concurrency cues has returned
\* completed.
C6_Witness ==
  \E p \in Pollers :
    /\ Returned(p) /\ ~overlap[key[p]] /\ pollNo[p] = 1
    /\ Len(origin[key[p]]) = concurrency
    /\ resp[p].status = "completed"

\* C7. A submit whose srt is missing or empty, or parses to no cue, is
\* answered 400 without a jobId and leaves the store as it was.
C7_EmptyRejected ==
  [][\A body \in SubmitBodies :
       (/\ Submit(body)
        /\ \/ body.srt \in {Undefined, <<EmptyLine>>}
           \/ Len(Parsed[body]) = 0) =>
         /\ submitResp'.code = 400
         /\ "jobId" \notin DOMAIN submitResp'
         /\ store' = store
         /\ created' = created]_vars

\* A text that parses to no cue has been rejected and no job exists.
C7_Witness ==
  /\ submitResp.code = 400
  /\ submitResp.error = "parse_failed_or_empty"
  /\ \A j \in JobIds : store[j] = NoObject

\* The poller takes a step of a poll of job j.
Polls(p, j) ==
  /\ pc[p] = "idle"
  /\ key'[p] = j
  /\ resp'[p] # resp[p] \/ pc'[p] # pc[p] \/ key'[p] # key[p]

\* C8. A poll of a jobId that has no stored object answers 404 not_found,
\* dispatches no request and leaves the store as it was.
C8_UnknownJob ==
  [][\A p \in Pollers, j \in JobIds :
       (store[j] = NoObject /\ (Polls(p, j) \/ PollNotFound(p, j))) =>
         /\ resp'[p] = [code |-> 404, status |-> "not_found"]
         /\ pc'[p] = "idle"
         /\ tasks'[p] = <<>>
         /\ store' = store]_vars

\* A poll has been answered not_found and the job still has no object.
C8_Witness ==
  \E p \in Pollers : resp[p].code = 404 /\ store[key[p]] = NoObject

\* The cue of an entry of a job record.
CueOf(e) == [index |-> e.index, start |-> e.start, end |-> e.end, text |-> e.src]

\* C9. Cue sequence immutability: every stored record has the cues it was
\* submitted with, position by position, and a write to an existing record
\* changes nothing but dst, cursor and completed.
C9_CuesImmutable ==
  [][\A j \in JobIds :
       store'[j] # NoObject =>
         /\ Len(store'[j].entries) = Len(origin'[j])
         /\ \A i \in DOMAIN store'[j].entries :
              CueOf(store'[j].entries[i]) = origin'[j][i]
         /\ store[j] # NoObject =>
              /\ origin'[j] = origin[j]
              /\ store'[j].createdAt = store[j].createdAt
              /\ store'[j].targetLanguage = store[j].targetLanguage
              /\ store'[j].note = store[j].note
              /\ store'[j].total = store[j].total
              /\ \A i \in DOMAIN store'[j].entries :
                   [store'[j].entries[i] EXCEPT !.dst = Undefined]
                     = [store[j].entries[i] EXCEPT !.dst = Undefined]]_vars

\* A stored record in which overlapping polls have written translations.
C9_Witness ==
  \E j \in JobIds :
    /\ store[j] # NoObject /\ overlap[j] /\ store[j].cursor > 0
    /\ \E i \in DOMAIN store[j].entries :
         store[j].entries[i].dst \notin {Undefined, store[j].entries[i].src}

\* C10. In every stored record 0 <= cursor <= total and total is the number
\* of entries.
C10_CursorInRange ==
  \A j \in JobIds :
    store[j] # NoObject =>
      /\ 0 <= store[j].cursor
      /\ store[j].cursor <= store[j].total
      /\ store[j].total = Len(store[j].entries)

\* A stored record half way (cursor strictly between 0 and total), written
\* after the job had been completed.
C10_Witness ==
  \E j \in JobIds :
    /\ store[j] # NoObject
    /\ 0 < store[j].cursor /\ store[j].cursor < store[j].total
    /\ doneSrt[j] # Undefined

\* C11. In every stored record, completed is true exactly when the cursor
\* has reached total.
C11_CompletedIffCursorAtTotal ==
  \A j \in JobIds :
    store[j] # NoObject =>
      (store[j].completed <=> store[j].cursor = store[j].total)

\* A completed record of a job of more than one batch, and a record of
\* such a job stored after its first batch, not completed.
C11_Witness ==
  \E j \in JobIds :
    /\ store[j] # NoObject /\ store[j].total > concurrency
    /\ store[j].completed /\ store[j].cursor = store[j].total
    /\ \E p \in Pollers :
         /\ key[p] = j /\ wrote[p] /\ pc[p] = "idle"
         /\ job[p].cursor = concurrency /\ ~job[p].completed

\* C12. A poll response has an srt field exactly when its status is
\* "completed"; a "processing" response has none.
C12_SrtIffCompleted ==
  \A p \in Pollers :
    resp[p] # NoResponse =>
      /\ ("srt" \in DOMAIN resp[p]) <=> (resp[p].status = "completed")
      /\ resp[p].status = "processing" => "srt" \notin DOMAIN resp[p]

\* One poll has answered "processing" without an srt and another has
\* answered "completed" with one.
C12_Witness ==
  \E p, q \in Pollers :
    /\ Returned(p) /\ resp[p].status = "processing" /\ "srt" \notin DOMAIN resp[p]
    /\ Returned(q) /\ resp[q].status = "completed" /\ "srt" \in DOMAIN resp[q]

\* C13. Every response of a poll that found the record carries cursor and
\* total: the cursor of the record at the end of the invocation and the
\* number of cues submitted.
C13_ProgressFields ==
  \A p \in Pollers :
    Returned(p) =>
      /\ {"cursor", "total"} \subseteq DOMAIN resp[p]
      /\ resp[p].cursor = c0[p] + Len(tasks[p])
      /\ resp[p].total = Len(origin[key[p]])

\* C14. Every poll that found the record has put the record back by the
\* time it answers 200.
C14_AlwaysWritesBack ==
  \A p \in Pollers :
    Returned(p) => wrote[p]

\* C15. A poll that loads a completed record answers at once: it claims no
\* cue, dispatches no request and leaves the store, the record included, as
\* it was.
C15_CompletedPollReadOnly ==
  [][\A p \in Pollers, j \in JobIds :
       (store[j] # NoObject /\ store[j].completed /\ Polls(p, j)) =>
         /\ store' = store
         /\ store'[j] # NoObject
         /\ pc'[p] = "idle"
         /\ tasks'[p] = <<>>
         /\ resp'[p].status = "completed"]_vars

\* A poll that began after the job was completed has answered from the
\* stored record.
C15_Witness ==
  \E p \in Pollers :
    /\ Returned(p) /\ afterDone[p] /\ ~wrote[p]
    /\ resp[p].status = "completed"
    /\ store[key[p]] # NoObject /\ store[key[p]].completed

\* C16. The record a poll writes back has no dst at the positions whose
\* request failed in that poll.
C16_FailedCueLeftUnset ==
  \A p \in Pollers :
    pc[p] = "storing" =>
      \A i \in Failed(p) \cap Range(tasks[p]) :
        job[p].entries[i + 1].dst = Undefined

\* No entry of the codec's job has a translation.
Untranslated == \A i \in DOMAIN codecEntries : codecEntries[i].dst = Undefined

\* C17. Codec round-trip: the cues parseSrt gives, serialized untranslated
\* by rebuildSrt and parsed again, come back the same in number and, position
\* by position, in index, start, end and text.
C17_RoundTrip ==
  (stage = "reparsed" /\ Untranslated) => codecBack = codecCues

\* The text an entry is printed with.
PrintedText(e) == IF e.dst # Undefined THEN e.dst ELSE e.src

\* The line of the output after which the block of entry i begins.
RECURSIVE BlockOffset(_, _)
BlockOffset(es, i) ==
  IF i = 1 THEN 0 ELSE BlockOffset(es, i - 1) + 3 + Len(PrintedText(es[i - 1]))

\* C18. The text rebuildSrt gives is made of one block per entry, in array
\* order, separated by one empty line; the block of an entry is its index
\* line, its start --> end line and its dst, or its src when it has no dst.
C18_OneBlockPerCue ==
  stage \in {"serialized", "reparsed"} =>
    LET es == codecEntries
        n == Len(es)
    IN IF n = 0 THEN codecOut = <<EmptyLine>>
       ELSE /\ Len(codecOut) = BlockOffset(es, n) + 2 + Len(PrintedText(es[n]))
            /\ \A i \in 1 .. n :
                 LET at == BlockOffset(es, i) IN
                 /\ codecOut[at + 1] = NumLine(es[i].index)
                 /\ codecOut[at + 2] = TimeLine(es[i].start, es[i].end)
                 /\ SubSeq(codecOut, at + 3, at + 2 + Len(PrintedText(es[i])))
                      = PrintedText(es[i])
                 /\ i < n => codecOut[at + 3 + Len(PrintedText(es[i]))] = EmptyLine

\* Two entries in the order of the input, not of their indexes, the first
\* printed with its translation and the second with its source text.
C18_Witness ==
  /\ stage = "serialized"
  /\ Len(codecEntries) = 2
  /\ codecEntries[1].index > codecEntries[2].index
  /\ codecEntries[1].dst # Undefined
  /\ codecEntries[2].dst = Undefined

\* The lines of the text at which a block begins: a line that is not blank
\* and follows a blank line or begins the text.
BlockStarts(text) ==
  {i \in DOMAIN text : NonBlank(text[i]) /\ (i = 1 \/ ~NonBlank(text[i - 1]))}

\* The blocks that are cues: a number line followed by a timestamp line.
CueStarts(text) ==
  {i \in BlockStarts(text) :
     /\ text[i].k = "num"
     /\ i < Len(text)
     /\ text[i + 1].k = "time"}

\* The k-th smallest member of a set of numbers.
Kth(S, k) == CHOOSE i \in S : Cardinality({x \in S : x < i}) = k - 1

\* The words of the lines first..last of the block, the empty string when
\* there is none.
RECURSIVE BlockWords(_, _)
BlockWords(text, i) ==
  IF i > Len(text) \/ ~NonBlank(text[i]) THEN <<>>
  ELSE <<text[i].w>> \o BlockWords(text, i + 1)

\* C19. parseSrt gives, in the order of the text, one cue for each block
\* whose first line is a finite number and whose second line is a timestamp
\* line, with that number, those timestamps and the rest of the block as
\* text; every other block gives nothing, and a text with no such block
\* gives no cue.
C19_ParseKeepsCueBlocks ==
  stage # "input" =>
    LET starts == CueStarts(codecIn) IN
    /\ Len(codecCues) = Cardinality(starts)
    /\ \A k \in DOMAIN codecCues :
         LET i == Kth(starts, k)
             words == BlockWords(codecIn, i + 2)
         IN /\ codecCues[k].index = codecIn[i].n
            /\ codecCues[k].start = codecIn[i + 1].s
            /\ codecCues[k].end = codecIn[i + 1].e
            /\ [x \in DOMAIN codecCues[k].text |-> codecCues[k].text[x].w]
                 = IF words = <<>> THEN <<"">> ELSE words

\* A text with a block that is dropped before a block that is a cue.
C19_Witness ==
  /\ stage = "parsed"
  /\ Len(codecCues) = 1
  /\ \E i \in BlockStarts(codecIn) \ CueStarts(codecIn) :
       \E c \in CueStarts(codecIn) : i < c

\* C20. Whatever the interleaving of the polls of a job, an srt answered
\* with status completed has the cues of the job, all of them and in the
\* order submitted, each with its index, start and end, and with a text
\* that is what a translation request answers for its source text or is
\* its source text.
C20_RaceKeepsOutputSound ==
  \A p \in Pollers :
    (Returned(p) /\ resp[p].status = "completed") =>
      LET shown == parseSrt(resp[p].srt)
          cues == origin[key[p]]
      IN /\ Len(shown) = Len(cues)
         /\ \A i \in DOMAIN cues :
              /\ shown[i].index = cues[i].index
              /\ shown[i].start = cues[i].start
              /\ shown[i].end = cues[i].end
              /\ shown[i].text \in {cues[i].text, translateOne(cues[i].text, "ok").t}

\* Two polls loaded the same cursor; the one whose request got no
\* translation wrote last, so the srt it answered shows the source text of
\* a cue the other poll had stored a translation of.
C20_Witness ==
  \E p, q \in Pollers :
    /\ p # q /\ key[p] = key[q] /\ c0[p] = c0[q]
    /\ Returned(p) /\ resp[p].status = "completed" /\ wrote[p]
    /\ Returned(q) /\ wrote[q]
    /\ store[key[p]] = job[p]
    /\ \E i \in DOMAIN job[p].entries :
         /\ (i - 1) \in Range(tasks[p]) \cap Range(tasks[q])
         /\ job[q].entries[i].dst # job[q].entries[i].src
         /\ parseSrt(resp[p].srt)[i].text = job[p].entries[i].src

\* C23. A submit answered 200 has put exactly one record, under the jobId
\* it returns, where there was none: cursor 0, not completed, total the
\* number of cues parsed (at least 1), the cues parsed in their order and
\* no dst; and a poll of a jobId that has a record never answers 404.
C23_SubmitCreatesOneRecord ==
  [][/\ \A body \in SubmitBodies :
          (Submit(body) /\ submitResp'.code = 200) =>
            LET id == submitResp'.jobId
                cues == Parsed[body]
            IN /\ store[id] = NoObject
               /\ \A j \in JobIds \ {id} : store'[j] = store[j]
               /\ store'[id] # NoObject
               /\ store'[id].cursor = 0
               /\ store'[id].completed = FALSE
               /\ store'[id].total = Len(cues)
               /\ store'[id].total >= 1
               /\ Len(store'[id].entries) = Len(cues)
               /\ \A i \in DOMAIN cues :
                    /\ CueOf(store'[id].entries[i]) = cues[i]
                    /\ store'[id].entries[i].dst = Undefined
     /\ \A p \in Pollers, j \in JobIds :
          (store[j] # NoObject /\ Polls(p, j)) => resp'[p].code # 404]_vars

\* The job of the largest text has been submitted and no poll has begun.
C23_Witness ==
  /\ submitResp.code = 200
  /\ store[submitResp.jobId] # NoObject
  /\ store[submitResp.jobId].total = MaxCues
  /\ store[submitResp.jobId].cursor = 0
  /\ polls[submitResp.jobId] = 0

\* C24. A poll sends one request for each cue it claimed, in the order
\* claimed, with the text of that cue, and sends nothing more when requests
\* fail: from the claim to the answer the requests sent are these.
C24_OneRequestPerClaimedCue ==
  \A p \in Pollers :
    (pc[p] # "idle" \/ Returned(p)) =>
      /\ Len(sent[p]) = Len(tasks[p])
      /\ \A k \in DOMAIN tasks[p] :
           /\ sent[p][k].idx = tasks[p][k]
           /\ sent[p][k].text = SourceCue(key[p], tasks[p][k]).text

\* A poll whose batch was full has answered although a request failed.
C24_Witness ==
  \E p \in Pollers :
    /\ Returned(p) /\ Len(sent[p]) = concurrency
    /\ Failed(p) \cap Range(tasks[p]) # {}

\* C27. In every stored record the entry at position i has a dst exactly
\* when i < cursor, and a response that reports processed reports it equal
\* to its cursor.
C27_TranslatedBelowCursor ==
  /\ \A j \in JobIds :
       store[j] # NoObject =>
         \A i \in DOMAIN store[j].entries :
           (store[j].entries[i].dst # Undefined) <=> (i - 1 < store[j].cursor)
  /\ \A p \in Pollers :
       (Returned(p) /\ "processed" \in DOMAIN resp[p]) =>
         resp[p].processed = resp[p].cursor

\* A stale poll has written a record half way after the job was completed,
\* and its response reports as many processed as its cursor.
C27_Witness ==
  \E p \in Pollers :
    /\ Returned(p) /\ resp[p].status = "processing"
    /\ resp[p].processed = concurrency
    /\ store[key[p]] = job[p]
    /\ doneSrt[key[p]] # Undefined
    /\ Faulty(p) # {}

\* No poll of the job is running.
Quiet(j) == \A p \in Pollers : pc[p] = "idle" \/ key[p] # j

\* C28. While the polls of a job do not overlap, every cue below the stored
\* cursor has had exactly one request and every other cue none, also the
\* cues whose request failed; so every cue of a completed job has had one.
C28_OneRequestPerCue ==
  \A j \in JobIds :
    (store[j] # NoObject /\ ~overlap[j] /\ Quiet(j)) =>
      \A i \in DOMAIN asked[j] :
        asked[j][i] = IF i - 1 < store[j].cursor THEN 1 ELSE 0

\* A job of two batches completed by polls that did not overlap, with a
\* failed request in the first batch.
C28_Witness ==
  \E j \in JobIds :
    /\ store[j] # NoObject /\ store[j].completed /\ ~overlap[j] /\ Quiet(j)
    /\ store[j].total > concurrency
    /\ <<0, "fail">> \in fallen[j]
    /\ asked[j][1] = 1

\* The invocation is ended by the host at this step.
Crashes(p) ==
  /\ pc[p] \in {"translating", "storing"}
  /\ pc'[p] = "idle"
  /\ resp'[p] = NoResponse

\* The poller's last invocation was ended by the host.
Crashed(p) == pc[p] = "idle" /\ resp[p] = NoResponse /\ tasks[p] # <<>>

\* Poller q claims a batch of job j at this step.
Claims(q, j) == pc[q] = "idle" /\ pc'[q] = "translating" /\ key'[q] = j

\* C21. An invocation ended between its claim and its write leaves the
\* store as it is, which (no other poll having been in flight) is the
\* record it loaded; and a poll that then finds the cursor the ended
\* invocation had loaded claims the same cues and sends the same requests.
C21_CrashLosesOnlyTheBatch ==
  [][\A p \in Pollers :
       /\ Crashes(p) =>
            /\ store' = store
            /\ ~overlap[key[p]] =>
                 /\ store[key[p]].cursor = c0[p]
                 /\ Processed(store[key[p]].entries) = c0[p]
                 /\ ~store[key[p]].completed
       /\ \A q \in Pollers :
            (/\ Crashed(p)
             /\ store[key[p]] # NoObject
             /\ store[key[p]].cursor = c0[p]
             /\ Claims(q, key[p])) =>
              /\ c0'[q] = c0[p]
              /\ tasks'[q] = tasks[p]
              /\ sent'[q] = sent[p]]_vars

\* An invocation was ended after claiming a full batch, and the next poll
\* has translated and written the same batch.
C21_Witness ==
  \E p, q \in Pollers :
    /\ Crashed(p) /\ Len(tasks[p]) = concurrency
    /\ Returned(q) /\ wrote[q] /\ key[q] = key[p]
    /\ tasks[q] = tasks[p]
    /\ ~overlap[key[p]]

\* C22. A poll whose get or put fails answers the error of the handler,
\* not a snapshot, and leaves the store as it is; a snapshot is answered
\* only by a poll that has written; and a poll that then finds the cursor
\* the failed poll had loaded claims the same cues.
C22_StoreFailureSurfaced ==
  [][\A p \in Pollers :
       /\ (resp'[p] # resp[p] /\ resp'[p] = Unhandled) =>
            /\ store' = store
            /\ pc'[p] = "idle"
            /\ ~wrote'[p]
       /\ (pc'[p] = "idle" /\ resp'[p].code = 200 /\ "cursor" \in DOMAIN resp'[p]) =>
            wrote'[p]
       /\ \A q \in Pollers :
            (/\ pc[p] = "idle" /\ resp[p] = Unhandled /\ tasks[p] # <<>>
             /\ store[key[p]].cursor = c0[p]
             /\ Claims(q, key[p])) =>
              tasks'[q] = tasks[p]]_vars

\* The put of a poll failed after its batch, and a later poll has
\* translated and written the same batch.
C22_Witness ==
  \E p, q \in Pollers :
    /\ pc[p] = "idle" /\ resp[p] = Unhandled /\ tasks[p] # <<>>
    /\ Returned(q) /\ wrote[q] /\ key[q] = key[p]
    /\ tasks[q] = tasks[p]
    /\ ~overlap[key[p]]

\* C30. Without the API key a poll of a stored job that is not completed
\* answers the 500 error, claims nothing, sends nothing and leaves the store
\* as it is; a poll of a completed job still answers completed with the srt
\* of the stored record.
C30_MissingApiKey ==
  [][\A p \in Pollers, j \in JobIds :
       (/\ ~apiKey
        /\ store[j] # NoObject
        /\ Polls(p, j)
        /\ resp'[p] # Unhandled) =>
         IF store[j].completed
           THEN /\ resp'[p].code = 200
                /\ resp'[p].status = "completed"
                /\ resp'[p].srt = rebuildSrt(store[j].entries)
           ELSE /\ resp'[p] = [code |-> 500, status |-> "error"]
                /\ pc'[p] = "idle"
                /\ tasks'[p] = <<>>
                /\ sent'[p] = <<>>
                /\ asked' = asked
                /\ store' = store]_vars

\* The key went away while a poll was translating: the next poll got the
\* error, and once the job was completed a later poll got the srt.
C30_Witness ==
  /\ ~apiKey
  /\ \E p, q \in Pollers :
       /\ key[p] = key[q]
       /\ pc[p] = "idle" /\ resp[p] = [code |-> 500, status |-> "error"]
       /\ Returned(q) /\ resp[q].status = "completed" /\ ~wrote[q]
       /\ pollNo[p] < pollNo[q]

\* The record the invocation holds once its claim loop has run.
BatchClaimed ==
  [batchLoaded EXCEPT !.cursor = Min(@ + concurrency, Len(batchLoaded.entries))]

\* C25. The invocation puts the record once, after the request of every
\* position it claimed has settled: no step taken while a request is
\* pending changes the object, and the record put holds the outcome of
\* every request of the batch.
C25_NoPartialPersist ==
  [][(batchStage # "off" /\ (batchStore' # batchStore \/ puts' # puts)) =>
       /\ pending = {}
       /\ Len(settleOrder) = Len(batchTasks)
       /\ puts = 0 /\ puts' = 1
       /\ \A i \in Range(batchTasks) : batchStore'.entries[i + 1].dst # Undefined]_vars

\* A full batch of a job's second poll has been put, one request having
\* failed.
C25_Witness ==
  /\ batchStage = "done"
  /\ puts = 1
  /\ Len(batchTasks) = MaxBatch
  /\ batchLoaded.cursor = concurrency
  /\ batchStore.cursor = concurrency + MaxBatch
  /\ \E i \in DOMAIN settledKinds : settledKinds[i] = "fail"

\* C26 as stated: whichever requests fail and in whatever order the
\* requests settle, the poll answers a snapshot, every cue whose request
\* did not fail has the text its own request returned, and the record
\* written is the one the outcomes alone determine.
C26_OwnCallText ==
  batchStage = "done" =>
    /\ batchResp.code = 200
    /\ batchResp.status \in {"processing", "completed"}
    /\ \A i \in Range(batchTasks) :
         settledKinds[i] # "fail" =>
           batchStore.entries[i + 1].dst =
             translateOne(batchLoaded.entries[i + 1].src, settledKinds[i]).t
    /\ batchStore = Settled(BatchClaimed, Range(batchTasks), settledKinds)

\* C26, amended. As stated, except that a cue whose request returned the
\* empty text has its source text.
C26_FailureIsolation ==
  batchStage = "done" =>
    /\ batchResp.code = 200
    /\ batchResp.status \in {"processing", "completed"}
    /\ batchResp = PollResponse(batchStore, batchTasks, Progressed(settledKinds))
    /\ \A i \in Range(batchTasks) :
         LET returned == translateOne(batchLoaded.entries[i + 1].src, settledKinds[i])
         IN settledKinds[i] # "fail" =>
              batchStore.entries[i + 1].dst =
                IF returned.t = <<EmptyLine>> THEN batchLoaded.entries[i + 1].src
                ELSE returned.t
    /\ batchStore = Settled(BatchClaimed, Range(batchTasks), settledKinds)

\* The requests of a batch settled out of claim order, one translated, one
\* empty and one failed.
C26_Witness ==
  /\ batchStage = "done"
  /\ Len(settleOrder) >= 3
  /\ settleOrder[1] > settleOrder[2]
  /\ {settledKinds[i] : i \in DOMAIN settledKinds} = OutcomeKinds

\* The entry the one-shot route has at position i (0-based) when the request
\* for it ended as kind.
ShotExpected(i, kind) ==
  LET e == shotEntries[i + 1]
  IN [index |-> e.index, start |-> e.start, end |-> e.end,
      text |-> IF kind = "ok" THEN ZH(e.text) ELSE e.text]

\* C29. One-shot route: there are min(100, n) workers, no two of them hold
\* the same position, every position below the cursor has been taken
\* exactly once and no other position at all, and at most min(100, n)
\* requests are under way; when every worker has returned, the result has
\* at every position the cue of that position with its index, start and
\* end and with the translation or, after a failed or empty translation,
\* the original text, and the srt answered is made of these in order.
C29_WorkersShareCursor ==
  shotStage \in {"starting", "running", "answered"} /\ shotResp.code \in {0, 200} =>
    LET n == Len(shotEntries) IN
    /\ Len(myIndex) <= Min(oneShotConcurrency, n)
    /\ shotStage # "starting" => Len(myIndex) = Min(oneShotConcurrency, n)
    /\ Cardinality({w \in DOMAIN myIndex : myIndex[w] # Broke})
         <= Min(oneShotConcurrency, n)
    /\ LET busy == {w \in DOMAIN myIndex : myIndex[w] # Broke}
       IN Cardinality({myIndex[w] : w \in busy}) = Cardinality(busy)
    /\ \A i \in 0 .. n - 1 : claimed[i + 1] = IF i < shotCursor THEN 1 ELSE 0
    /\ (shotStage # "starting" /\ \A w \in DOMAIN myIndex : myIndex[w] = Broke) =>
         /\ DOMAIN shotKinds = 0 .. n - 1
         /\ \A i \in 0 .. n - 1 :
              translatedEntries[i + 1] = ShotExpected(i, shotKinds[i])
    /\ shotStage = "answered" =>
         shotResp.srt = mergedSrt([i \in 1 .. n |-> ShotExpected(i - 1, shotKinds[i - 1])])

\* A track of more cues than workers has been answered; the first request
\* failed and the request for the first position taken by a worker that
\* had finished another came back empty.
C29_Witness ==
  /\ shotStage = "answered"
  /\ shotResp.code = 200
  /\ Len(shotEntries) = oneShotConcurrency + MaxExtra
  /\ shotKinds[0] = "fail"
  /\ shotKinds[oneShotConcurrency] = "empty"
  /\ shotCursor = Len(shotEntries) + oneShotConcurrency

====
